---- MODULE Spec2Model ----
(***************************************************************************)
(* Emergency alert subsystem of the tourist safety app.                    *)
(*                                                                         *)
(*   Safety screen (panic button)    src/touristapp/app/(tabs)/index.tsx   *)
(*   EmergencyService                src/unnamed/part_000                  *)
(*   LocationService                 src/touristapp/app/services/location.ts *)
(*                                                                         *)
(* One event loop: every action below is one macrotask (a UI handler, a    *)
(* timer callback, or the resumption of an async function after an await   *)
(* on the platform) together with the microtasks it queues.                *)
(***************************************************************************)
EXTENDS Integers, Sequences, FiniteSets, TLC

\* ------------------------------------------------------------------ bounds
\* number of countdown timers (setInterval calls) the model lets the user start
MaxTimers == 2
\* largest value of the clock read by Date.now()
MaxClock == 1
\* startTracking calls that may be in flight at once
MaxStartCalls == 2
\* position subscriptions that may be live at once
MaxSubs == 2
\* fixes the platform delivers to the watch callback
MaxFixes == 52
\* fixes passed to checkGeofenceViolation
MaxStream == 3
\* fixes delivered while the progress of their sendLocationUpdate calls is followed
MaxSends == 3
\* seconds on the clock of the fixes passed to calculateSpeed
MaxSeconds == 2
\* entries of emergencyContacts up to which addEmergencyContact calls are followed
MaxContacts == 4

\* --------------------------------------------------------------- constants
\* `let count = 3` / setCountdown(3) in startPanicSequence
StartCount == 3
\* countdownRef.current === null
NoTimer == 0
\* LocationData.address === undefined
NoAddress == ""
\* a value that is null in the source
Null == << >>

\* this.watchId === null
NoWatch == 0
\* the entry of stopTracking's `Storage.setItem('locationTracking', 'false')`
\* among the writes in flight; the entry of a startTracking call is its slot
StopWriter == 0
\* `this.locationHistory.length > 50` / `slice(-50)` in the watch callback
HistoryCapacity == 50
\* great-circle distance in metres between the centres of the two restricted
\* areas, as calculateDistance computes it from their coordinates
ZoneSpacing == 54332
\* `R * c` for c = pi / 2, R = 6371e3: a quarter of a great circle, in metres
QuarterCircle == 10007543
\* `/ 1000` in calculateSpeed: milliseconds in a second
MillisPerSecond == 1000

TimerIds == 1..MaxTimers
StartCalls == 1..MaxStartCalls
SubIds == 1..MaxSubs

\* coordinates the platform may report (latitude, longitude)
Positions == { [latitude |-> 25, longitude |-> 91] }

\* EmergencyService.emergencyContacts as constructed: the phone numbers
EmergencyContacts ==
    << [name |-> "Local Police", phone |-> "100"],
       [name |-> "Tourist Helpline", phone |-> "1363"],
       [name |-> "Medical Emergency", phone |-> "108"] >>

\* contacts a caller may pass to addEmergencyContact
NewContacts == { [name |-> "Family", phone |-> "555"] }

PermissionOutcomes == {"granted", "denied", "error"}
GeocodeOutcomes == {"address", "empty", "error"}
HapticOutcomes == {"ok", "error"}
\* sendEmergencyAlert: payload logged / no user or token / Storage threw
ForwardOutcomes == {"sent", "noauth", "error"}
\* notifyEmergencyContacts: dialog shown / Alert.alert threw
NotifyOutcomes == {"shown", "error"}
\* Location.watchPositionAsync: subscription handed back / threw
WatchOutcomes == {"ok", "error"}
\* Storage.setItem: written / threw
StoreOutcomes == {"ok", "error"}
\* reportIncident after its location: confirmation dialog shown / the read of
\* 'user' from Storage or Alert.alert threw
ReportOutcomes == {"shown", "error"}

\* restrictedAreas in checkGeofenceViolation, in list order; a point is given by
\* its place: metres from the first area's centre along the great circle
\* through both centres
RestrictedAreas ==
    << [name |-> "Restricted Military Zone", place |-> 0, radius |-> 1000],
       [name |-> "Protected Forest Area", place |-> ZoneSpacing, radius |-> 500] >>

\* places of the fixes passed to checkGeofenceViolation: each area's centre, its
\* rim, one metre beyond the rim, and points inside and outside the first area
FixPlaces ==
    UNION { { RestrictedAreas[i].place,
              RestrictedAreas[i].place + RestrictedAreas[i].radius,
              RestrictedAreas[i].place + RestrictedAreas[i].radius + 1 } :
            i \in 1..Len(RestrictedAreas) }
      \cup {400, 500, 1500}

VARIABLES
    mounted,          \* the Safety component is mounted
    emergencyActive,  \* useState(false)
    panicPressed,     \* useState(false)
    countdown,        \* useState(0)
    countdownRef,     \* useRef(null).current : a timer id or NoTimer
    nextTimer,        \* the id the next setInterval call returns
    scheduled,        \* ids of the interval timers still scheduled
    count,            \* count[t] : the closure variable `count` of timer t
    pc,               \* pc[t] : position of the triggerPanicAlert call made by timer t
    result,           \* result[t] : value that call returned ("none" while pending)
    settled,          \* what the platform answered to the await that settled last
    alertHistory,     \* EmergencyService.alertHistory
    now,              \* Date.now()
    watchId,          \* LocationService.watchId : a subscription id or NoWatch
    isTracking,       \* LocationService.isTracking
    locationHistory,  \* LocationService.locationHistory
    subs,             \* ids of the position subscriptions that are live
    delivered,        \* number of fixes the platform has delivered so far
    startPc,          \* startPc[c] : position of startTracking call c
    startResult,      \* startResult[c] : value call c returned ("none" while pending)
    stopPc,           \* position of the stopTracking call
    stored,           \* Storage item 'locationTracking'
    writes,           \* Storage.setItem calls in flight, in the order issued
    fixStream,        \* places of the fixes passed to checkGeofenceViolation
    verdicts,         \* verdicts[i] : value the check of fixStream[i] returned
    raised,           \* the triggerGeofenceAlert calls made, in order
    checkPc,          \* position of the checkGeofenceViolation call
    held,             \* the array a caller got from a history getter
    sending,          \* fixes (by order of arrival) whose sendLocationUpdate is in flight
    lastSent,         \* the sendLocationUpdate call that settled last, and how
    reportPc,         \* position of the reportIncident call
    reportResult,     \* value that call returned ("none" while pending)
    probe,            \* the LocationService query that settled last: answers and value
    emergencyContacts \* EmergencyService.emergencyContacts

vars == << mounted, emergencyActive, panicPressed, countdown, countdownRef,
           nextTimer, scheduled, count, pc, result, settled,
           alertHistory, now,
           watchId, isTracking, locationHistory, subs, delivered,
           startPc, startResult, stopPc, stored, writes,
           fixStream, verdicts, raised, checkPc, held,
           sending, lastSent, reportPc, reportResult, probe, emergencyContacts >>

uiVars == << mounted, emergencyActive, panicPressed, countdown, countdownRef >>
timerVars == << nextTimer, scheduled, count >>
callVars == << pc, result, settled >>
panicVars == << uiVars, timerVars, callVars, now >>
trackVars == << watchId, isTracking, locationHistory, subs, delivered,
                startPc, startResult, stopPc, stored, writes >>
geoVars == << fixStream, verdicts, raised, checkPc >>
sendVars == << sending, lastSent >>
apiVars == << reportPc, reportResult, probe, emergencyContacts >>

\* the elements of an array
Range(seq) == { seq[i] : i \in 1..Len(seq) }

\* `this.emergencyContacts.map(c => c.phone)`: a new array of the phone numbers
Phones(contacts) == [i \in 1..Len(contacts) |-> contacts[i].phone]

\* no await has settled yet; also the fields an await does not concern
Unsettled == [haptic |-> "none", permission |-> "none", position |-> "none",
              forward |-> "none", notify |-> "none"]

\* a caller holds no array; otherwise `from` names the getter that returned
\* it, `refs` lists the entry objects it holds (a fix by its order of arrival,
\* an alert by its order of creation) and `written` tells whether the caller
\* has written to its first entry
NotHeld == [from |-> "none", refs |-> << >>, written |-> FALSE]

\* no sendLocationUpdate call has settled yet
NotSent == [fix |-> 0, outcome |-> "none"]

\* no LocationService query has settled yet
NotProbed == [op |-> "none"]

\* ---------------------------------------------------------- LocationService

\* a requestPermissions() that needs background access as well
RequestPermissionsStrict(fg, bg) == fg = "granted" /\ bg = "granted"

\* requestPermissions(): false unless foreground is granted; the background
\* request runs inside the same try block, so an exception there returns false
RequestPermissions(fg, bg) ==
    IF fg # "granted" THEN FALSE
    ELSE IF bg = "error" THEN FALSE
    ELSE TRUE

\* a getCurrentLocation() whose reverse geocoding is not in a try block of
\* its own: a geocoding exception reaches the outer catch
GetCurrentLocationGeocodeFatal(fg, bg, posOk, pos, geo, t) ==
    IF ~RequestPermissions(fg, bg) THEN Null
    ELSE IF ~posOk THEN Null
    ELSE IF geo = "error" THEN Null
    ELSE << [latitude  |-> pos.latitude,
             longitude |-> pos.longitude,
             timestamp |-> t,
             address   |-> IF geo = "address" THEN "addr" ELSE NoAddress] >>

\* getCurrentLocation() without the `if (!hasPermission) return null` line
GetCurrentLocationUnchecked(fg, bg, posOk, pos, geo, t) ==
    IF ~posOk THEN Null
    ELSE << [latitude  |-> pos.latitude,
             longitude |-> pos.longitude,
             timestamp |-> t,
             address   |-> IF geo = "address" THEN "addr" ELSE NoAddress] >>

\* getCurrentLocation(): null without permission or when the position fetch
\* throws; a geocoding failure only leaves the address undefined
GetCurrentLocation(fg, bg, posOk, pos, geo, t) ==
    IF ~RequestPermissions(fg, bg) THEN Null
    ELSE IF ~posOk THEN Null
    ELSE << [latitude  |-> pos.latitude,
             longitude |-> pos.longitude,
             timestamp |-> t,
             address   |-> IF geo = "address" THEN "addr" ELSE NoAddress] >>

\* the answer that decides requestPermissions(): the foreground answer, or
\* the background request's exception
PermissionAnswer(fg, bg) ==
    IF fg # "granted" THEN fg
    ELSE IF bg = "error" THEN "error"
    ELSE "granted"

\* startTracking without its `if (this.isTracking) return true` lines
StartTrackingBranchUnguarded(hasPermission, active) ==
    IF ~hasPermission THEN "false"
    ELSE "watch"

\* startTracking once requestPermissions has settled: return false, return
\* true because tracking is already active, or go on to watchPositionAsync
StartTrackingBranch(hasPermission, active) ==
    IF ~hasPermission THEN "false"
    ELSE IF active THEN "true"
    ELSE "watch"

\* the LocationData literal built by the watch callback for the n-th fix the
\* platform delivers; its timestamp is the time of delivery, counted in fixes
NewFix(pos, n) ==
    [latitude |-> pos.latitude, longitude |-> pos.longitude, timestamp |-> n]

\* a watch callback that trims with slice(0, 50)
WatchCallbackHistoryOldest(history, fix) ==
    LET pushed == Append(history, fix) IN
    IF Len(pushed) > HistoryCapacity
    THEN SubSeq(pushed, 1, HistoryCapacity)
    ELSE pushed

\* locationHistory after the watch callback: push, then slice(-50) when the
\* length exceeds 50
WatchCallbackHistory(history, fix) ==
    LET pushed == Append(history, fix) IN
    IF Len(pushed) > HistoryCapacity
    THEN SubSeq(pushed, Len(pushed) - HistoryCapacity + 1, Len(pushed))
    ELSE pushed

\* a stopTracking that forgets this.watchId.remove()
SubsAfterStopKept(live, watch) == live

\* `if (this.watchId) this.watchId.remove()`
SubsAfterStop(live, watch) == IF watch # NoWatch THEN live \ {watch} ELSE live

\* a stopTracking that toggles the flag
ActiveAfterStopToggled(active) == ~active

\* `this.isTracking = false` in stopTracking
ActiveAfterStop(active) == FALSE

\* a startTracking that does not write the flag
StoredAfterStartSkipped(outcome, old) == old

\* the stored item once `await Storage.setItem('locationTracking', 'true')`
\* has settled: written, or left as it was when the write threw
StoredAfterStart(outcome, old) == IF outcome = "ok" THEN "true" ELSE old

\* a store that completes the writes in flight in any order
MayStoreAnyOrder(writer, queue) == \E i \in 1..Len(queue) : queue[i] = writer

\* the key-value store applies the writes in the order in which they were
\* issued: the oldest write in flight is the one that completes
MayStore(writer, queue) == Len(queue) > 0 /\ queue[1] = writer

\* the writes in flight once the write of `writer` has completed
WritesAfterStore(queue, writer) == SelectSeq(queue, LAMBDA w : w # writer)

\* a stopTracking that clears every timer of the app
TimersAfterStopCleared(sched) == {}

\* the interval timers after stopTracking: it removes its own subscription
\* and clears no timer
TimersAfterStop(sched) == sched

\* a watch callback that gives up tracking when a send fails
ActiveAfterSendFailed(active, outcome) == IF outcome = "sent" THEN active ELSE FALSE

\* isTracking after sendLocationUpdate has settled: the call is not awaited
\* and catches its own errors
ActiveAfterSend(active, outcome) == active

\* sends that settle in the order in which they were started
MayCompleteInOrder(n, inflight) == n \in inflight /\ \A m \in inflight : n <= m

\* sendLocationUpdate calls are independent: any one in flight may settle next
MayComplete(n, inflight) == n \in inflight

\* a stopTracking that empties the history
HistoryAfterStopCleared(history) == << >>

\* locationHistory after stopTracking: the function does not touch it
HistoryAfterStop(history) == history

\* getLocationHistory(): a new array holding the entries of `history`
GetLocationHistory(history) == [i \in 1..Len(history) |-> history[i]]

\* the array getLocationHistory() hands out, as references to its entries
LocationRefs(history) == [i \in 1..Len(history) |-> history[i].timestamp]

\* locationHistory once a caller has run `entry.latitude = 0` on the entry
\* object `ref`: the history holds that same object
LocationsAfterWrite(history, ref) ==
    [i \in 1..Len(history) |->
        IF history[i].timestamp = ref THEN [history[i] EXCEPT !.latitude = 0]
        ELSE history[i]]

\* --------------------------------------------------------- EmergencyService

\* getAlertHistory(): a new array holding the entries of `history`
GetAlertHistory(history) == [i \in 1..Len(history) |-> history[i]]

\* the array getAlertHistory() hands out, as references to its entries
AlertRefs(history) == [i \in 1..Len(history) |-> Len(history) - i + 1]

\* alertHistory once a caller has run `entry.status = 'resolved'` on the entry
\* object `ref`: the history holds that same object
AlertsAfterWrite(history, ref) ==
    [i \in 1..Len(history) |->
        IF Len(history) - i + 1 = ref THEN [history[i] EXCEPT !.status = "resolved"]
        ELSE history[i]]

\* an alert literal that leaves the location out
NewAlertNoLocation(location, t) ==
    [id        |-> t,
     type      |-> "sos",
     message   |-> "Emergency assistance required - Panic button activated",
     location  |-> Null,
     timestamp |-> t,
     status    |-> "sent",
     contacts  |-> Phones(emergencyContacts)]

\* the EmergencyAlert object literal built by triggerPanicAlert
NewAlert(location, t) ==
    [id        |-> t,
     type      |-> "sos",
     message   |-> "Emergency assistance required - Panic button activated",
     location  |-> [latitude  |-> location.latitude,
                    longitude |-> location.longitude,
                    address   |-> location.address],
     timestamp |-> t,
     status    |-> "sent",
     contacts  |-> Phones(emergencyContacts)]

\* this.alertHistory.push(alert) in place of unshift
Push(history, alert) == history \o << alert >>

\* this.alertHistory.unshift(alert)
Unshift(history, alert) == << alert >> \o history

\* sendEmergencyAlert without its try/catch: a Storage exception reaches the caller
SendEmergencyAlertUncaught(outcome) == outcome = "error"

\* sendEmergencyAlert wraps its body in try/catch: nothing reaches the caller
SendEmergencyAlertThrows(outcome) == FALSE

\* notifyEmergencyContacts wraps its body in try/catch as well
NotifyEmergencyContactsThrows(outcome) == FALSE

\* a dispatch that takes the alert back out of the history when it fails
HistoryRolledBack(history, fwd, ntf) ==
    IF fwd = "error" \/ ntf = "error" THEN Tail(history) ELSE history

\* a dispatch that rewrites the status of every alert from its own outcome
HistoryRestamped(history, fwd, ntf) ==
    [i \in 1..Len(history) |->
        [history[i] EXCEPT !.status = IF fwd = "error" \/ ntf = "error"
                                      THEN "sent" ELSE "acknowledged"]]

\* alert history after sendEmergencyAlert / notifyEmergencyContacts have run:
\* neither touches this.alertHistory
HistoryAfterDispatch(history, fwd, ntf) == history

\* value triggerPanicAlert returns once the alert is recorded
DispatchResult(fwd, ntf) ==
    IF SendEmergencyAlertThrows(fwd) \/ NotifyEmergencyContactsThrows(ntf)
    THEN "false" ELSE "true"

\* calculateDistance for two points of the great circle through the centres
\* of the restricted areas: the length of the arc between them, in metres
CalculateDistance(a, b) == IF a >= b THEN a - b ELSE b - a

\* points whose latitude and longitude are whole quarter turns (multiples of
\* 90 degrees), on which the haversine formula has exact values
GridPoints == [latitude : -1..1, longitude : -2..2]

\* fixes on the grid with a timestamp of whole seconds, held in milliseconds
GridFixes ==
    [latitude : -1..1, longitude : -1..1,
     timestamp : {sec * MillisPerSecond : sec \in 0..MaxSeconds}]

\* 2 * Math.sin(x) * Math.sin(x) for x = k eighths of a turn: 0, 1, 2, 1, ...
TwiceSinSquared(k) ==
    CASE k % 4 = 0 -> 0
      [] k % 4 = 2 -> 2
      [] OTHER -> 1

\* Math.cos of a latitude of q quarter turns: 1 on the equator, 0 at a pole
CosLatitude(q) == IF q = 0 THEN 1 ELSE 0

\* a haversine distance that carries the sign of the latitude difference
CalculateDistanceSigned(loc1, loc2) ==
    LET twiceA == TwiceSinSquared(loc2.latitude - loc1.latitude) +
                  CosLatitude(loc1.latitude) * CosLatitude(loc2.latitude) *
                  TwiceSinSquared(loc2.longitude - loc1.longitude)
    IN  IF loc2.latitude < loc1.latitude THEN 0 - twiceA * QuarterCircle
        ELSE twiceA * QuarterCircle

\* calculateDistance on grid points. With angles in quarter turns,
\* delta / 2 is a number of eighths of a turn; `a` is 0, 1/2 or 1 (twiceA is
\* 0, 1 or 2), c = 2 * atan2(sqrt(a), sqrt(1 - a)) is then 0, 1 or 2 quarter
\* turns, and the result is R * c in metres
CalculateDistanceOfFixes(loc1, loc2) ==
    LET twiceA == TwiceSinSquared(loc2.latitude - loc1.latitude) +
                  CosLatitude(loc1.latitude) * CosLatitude(loc2.latitude) *
                  TwiceSinSquared(loc2.longitude - loc1.longitude)
    IN  twiceA * QuarterCircle

\* the number 0 as calculateSpeed returns it without dividing
NoSpeed == [divided |-> FALSE, dividend |-> 0, divisor |-> 1]

\* a calculateSpeed that divides whenever the two timestamps differ
CalculateSpeedUnguarded(loc1, loc2) ==
    LET distance == CalculateDistanceOfFixes(loc1, loc2)
        timeDiff == (loc2.timestamp - loc1.timestamp) \div MillisPerSecond
    IN  IF timeDiff # 0
        THEN [divided |-> TRUE, dividend |-> distance, divisor |-> timeDiff]
        ELSE NoSpeed

\* calculateSpeed: `timeDiff > 0 ? distance / timeDiff : 0`, the quotient kept
\* as dividend (metres) and divisor (seconds)
CalculateSpeed(loc1, loc2) ==
    LET distance == CalculateDistanceOfFixes(loc1, loc2)
        timeDiff == (loc2.timestamp - loc1.timestamp) \div MillisPerSecond
    IN  IF timeDiff > 0
        THEN [divided |-> TRUE, dividend |-> distance, divisor |-> timeDiff]
        ELSE NoSpeed

\* the first restricted area, in list order, with `distance <= area.radius`
\* for a fix at `place`; 0 when the loop ends without one
ViolatedArea(place) ==
    LET inside == { i \in 1..Len(RestrictedAreas) :
                      CalculateDistance(place, RestrictedAreas[i].place)
                         <= RestrictedAreas[i].radius }
    IN IF inside = {} THEN 0
       ELSE CHOOSE i \in inside : \A j \in inside : i <= j

\* a check that alerts only when the previous fix was not inside the area
TriggersAlertOnEntry(area, previous) == area # 0 /\ previous # area

\* checkGeofenceViolation calls triggerGeofenceAlert for every fix it finds
\* inside an area; it keeps nothing about the previous fix
TriggersAlert(area, previous) == area # 0

\* a triggerGeofenceAlert that records an EmergencyAlert
HistoryWithGeofenceAlert(history, area, place) ==
    << [id        |-> now,
        type      |-> "geofence",
        message   |-> RestrictedAreas[area].name,
        location  |-> [latitude |-> place, longitude |-> place, address |-> NoAddress],
        timestamp |-> now,
        status    |-> "sent",
        contacts  |-> Phones(emergencyContacts)] >> \o history

\* alertHistory after triggerGeofenceAlert: a haptic pulse and a dialog, no
\* EmergencyAlert is built
HistoryAfterGeofenceAlert(history, area, place) == history

\* an addEmergencyContact whose array is the one the recorded alerts hold
AlertsAfterAddShared(history, contact) ==
    [i \in 1..Len(history) |->
        [history[i] EXCEPT !.contacts = Append(history[i].contacts, contact.phone)]]

\* alertHistory after `this.emergencyContacts.push(contact)`: the alerts hold
\* arrays of their own, made by map() when they were built
AlertsAfterAdd(history, contact) == history

\* `this.emergencyContacts.filter(c => c.phone !== phone)`
ContactsAfterRemove(contacts, phone) == SelectSeq(contacts, LAMBDA c : c.phone # phone)

\* a reportIncident that files the incident in the alert history
HistoryWithIncident(history, location) ==
    << [id        |-> now,
        type      |-> "security",
        message   |-> "incident",
        location  |-> [latitude  |-> location.latitude,
                       longitude |-> location.longitude,
                       address   |-> location.address],
        timestamp |-> now,
        status    |-> "sent",
        contacts  |-> Phones(emergencyContacts)] >> \o history

\* alertHistory after reportIncident has built its incident object: the
\* incident is logged and confirmed in a dialog, the history is not touched
HistoryAfterReport(history, location) == history

\* ------------------------------------------------------------ Safety screen

\* setState of an unmounted component is dropped
SetState(old, new) == IF mounted THEN new ELSE old

\* `if (count <= 1)`: the countdown ends one tick early
ExpiredEarly(c) == c <= 1

\* `if (count <= 0)` in the interval callback
Expired(c) == c <= 0

\* a cancel that forgets clearTimeout
ClearTimerForgotten(sched, ref) == sched

\* if (countdownRef.current) clearTimeout(countdownRef.current)
ClearTimer(sched, ref) == IF ref # NoTimer THEN sched \ {ref} ELSE sched

\* onPress={emergencyActive ? cancelEmergency : startPanicSequence}
StartEnabled == mounted /\ ~emergencyActive

\* triggerEmergency without its else branch
ActiveAfterTriggerKept(success, active) == active

\* the `if (success) ... else setEmergencyActive(false)` of triggerEmergency
ActiveAfterTrigger(success, active) == IF success THEN active ELSE FALSE

\* a cancel that forgets `countdownRef.current = null`
RefAfterCancelKept(ref) == ref

\* countdownRef.current after cancelPanicSequence / cancelEmergency
RefAfterCancel(ref) == NoTimer

TypeOK ==
    /\ mounted \in BOOLEAN
    /\ emergencyActive \in BOOLEAN
    /\ panicPressed \in BOOLEAN
    /\ countdown \in 0..StartCount
    /\ countdownRef \in {NoTimer} \cup TimerIds
    /\ nextTimer \in 1..(MaxTimers + 1)
    /\ scheduled \subseteq TimerIds
    /\ count \in [TimerIds -> 0..StartCount]
    /\ pc \in [TimerIds -> {"none", "haptic", "location", "send", "returned"}]
    /\ result \in [TimerIds -> {"none", "true", "false"}]
    /\ settled \in [haptic     : {"none"} \cup HapticOutcomes,
                    permission : {"none"} \cup PermissionOutcomes,
                    position   : {"none", "ok", "error"},
                    forward    : {"none"} \cup ForwardOutcomes,
                    notify     : {"none"} \cup NotifyOutcomes]
    /\ Len(alertHistory) <= MaxTimers
    /\ now \in 0..MaxClock
    /\ watchId \in {NoWatch} \cup SubIds
    /\ isTracking \in BOOLEAN
    /\ Len(locationHistory) <= HistoryCapacity
    /\ subs \subseteq SubIds
    /\ delivered \in 0..MaxFixes
    /\ startPc \in [StartCalls -> {"idle", "permission", "watch", "store"}]
    /\ startResult \in [StartCalls -> {"none", "true", "false"}]
    /\ stopPc \in {"idle", "store"}
    /\ stored \in {"unset", "true", "false"}
    /\ writes \in Seq(StartCalls \cup {StopWriter})
    /\ emergencyContacts \in Seq(Range(EmergencyContacts) \cup NewContacts)
    /\ Len(fixStream) <= MaxStream
    /\ Len(verdicts) <= Len(fixStream)
    /\ Len(raised) <= Len(fixStream)
    /\ checkPc \in {"idle", "haptic"}
    /\ held.from \in {"none", "location", "alert"}
    /\ Len(held.refs) <= HistoryCapacity
    /\ held.written \in BOOLEAN
    /\ sending \subseteq 1..MaxFixes
    /\ lastSent.fix \in 0..MaxFixes
    /\ lastSent.outcome \in {"none"} \cup ForwardOutcomes
    /\ reportPc \in {"idle", "location", "user"}
    /\ reportResult \in {"none", "true", "false"}
    /\ probe.op \in {"none", "requestPermissions", "getCurrentLocation",
                    "calculateDistance", "calculateSpeed"}

Init ==
    /\ emergencyContacts = EmergencyContacts
    /\ mounted = TRUE
    /\ emergencyActive = FALSE
    /\ panicPressed = FALSE
    /\ countdown = 0
    /\ countdownRef = NoTimer
    /\ nextTimer = 1
    /\ scheduled = {}
    /\ count = [t \in TimerIds |-> 0]
    /\ pc = [t \in TimerIds |-> "none"]
    /\ result = [t \in TimerIds |-> "none"]
    /\ settled = Unsettled
    /\ alertHistory = << >>
    /\ now = 0
    /\ watchId = NoWatch
    /\ isTracking = FALSE
    /\ locationHistory = << >>
    /\ subs = {}
    /\ delivered = 0
    /\ startPc = [c \in StartCalls |-> "idle"]
    /\ startResult = [c \in StartCalls |-> "none"]
    /\ stopPc = "idle"
    /\ stored = "unset"
    /\ writes = << >>
    /\ fixStream = << >>
    /\ verdicts = << >>
    /\ raised = << >>
    /\ checkPc = "idle"
    /\ held = NotHeld
    /\ sending = {}
    /\ lastSent = NotSent
    /\ reportPc = "idle"
    /\ reportResult = "none"
    /\ probe = NotProbed

\* startPanicSequence, reached from the panic button's onPress
StartPanicSequence ==
    /\ StartEnabled
    /\ nextTimer <= MaxTimers
    /\ panicPressed' = TRUE
    /\ countdown' = StartCount
    /\ count' = [count EXCEPT ![nextTimer] = StartCount]
    /\ scheduled' = scheduled \cup {nextTimer}
    /\ countdownRef' = nextTimer
    /\ nextTimer' = nextTimer + 1
    /\ UNCHANGED << mounted, emergencyActive, callVars, alertHistory, now >>
    /\ UNCHANGED << trackVars, geoVars, held, sendVars, apiVars >>

\* cancelPanicSequence, reached from onPressOut while panicPressed && !emergencyActive
CancelPanicSequence ==
    /\ mounted
    /\ panicPressed /\ ~emergencyActive
    /\ scheduled' = ClearTimer(scheduled, countdownRef)
    /\ countdownRef' = IF countdownRef # NoTimer THEN RefAfterCancel(countdownRef) ELSE countdownRef
    /\ panicPressed' = FALSE
    /\ countdown' = 0
    /\ UNCHANGED << mounted, emergencyActive, nextTimer, count, callVars, alertHistory, now >>
    /\ UNCHANGED << trackVars, geoVars, held, sendVars, apiVars >>

\* the setInterval callback of timer t; on expiry it clears itself and runs
\* triggerEmergency up to the first await inside triggerPanicAlert
Tick(t) ==
    /\ t \in scheduled
    /\ LET c == count[t] - 1 IN
       /\ count' = [count EXCEPT ![t] = c]
       /\ countdown' = SetState(countdown, c)
       /\ IF Expired(c)
          THEN /\ scheduled' = scheduled \ {t}
               /\ emergencyActive' = SetState(emergencyActive, TRUE)
               /\ panicPressed' = SetState(panicPressed, FALSE)
               /\ pc' = [pc EXCEPT ![t] = "haptic"]
          ELSE /\ UNCHANGED << scheduled, emergencyActive, panicPressed, pc >>
    /\ UNCHANGED << mounted, countdownRef, nextTimer, result, settled, alertHistory, now >>
    /\ UNCHANGED << trackVars, geoVars, held, sendVars, apiVars >>

\* triggerPanicAlert returns `value` to triggerEmergency, which resumes at once
Return(t, value) ==
    /\ pc' = [pc EXCEPT ![t] = "returned"]
    /\ result' = [result EXCEPT ![t] = value]
    /\ emergencyActive' = SetState(emergencyActive, ActiveAfterTrigger(value = "true", emergencyActive))

\* Haptics.notificationAsync settles
HapticDone(t) ==
    /\ pc[t] = "haptic"
    /\ \E h \in HapticOutcomes :
         /\ settled' = [Unsettled EXCEPT !.haptic = h]
         /\ IF h = "ok"
            THEN /\ pc' = [pc EXCEPT ![t] = "location"]
                 /\ UNCHANGED << result, emergencyActive >>
            ELSE Return(t, "false")
    /\ UNCHANGED << mounted, panicPressed, countdown, countdownRef, timerVars,
                    alertHistory, now >>
    /\ UNCHANGED << trackVars, geoVars, held, sendVars, apiVars >>

\* what one call of getCurrentLocation at time t can come back with: the
\* platform's answers on permission and position and the value returned
LocationAnswers(t) ==
    { [permission |-> fg,
       position   |-> IF posOk THEN "ok" ELSE "error",
       location   |-> GetCurrentLocation(fg, bg, posOk, pos, geo, t)] :
         fg \in PermissionOutcomes, bg \in PermissionOutcomes, posOk \in BOOLEAN,
         pos \in Positions, geo \in GeocodeOutcomes }

\* LocationService.getCurrentLocation settles; with a location the alert is
\* built and recorded and sendEmergencyAlert starts
LocationDone(t) ==
    /\ pc[t] = "location"
    /\ \E answer \in LocationAnswers(now) :
         /\ settled' = [Unsettled EXCEPT !.permission = answer.permission,
                                         !.position = answer.position]
         /\ IF answer.location = Null
            THEN /\ Return(t, "false")
                 /\ UNCHANGED alertHistory
            ELSE /\ alertHistory' = Unshift(alertHistory, NewAlert(answer.location[1], now))
                 /\ pc' = [pc EXCEPT ![t] = "send"]
                 /\ UNCHANGED << result, emergencyActive >>
    /\ UNCHANGED << mounted, panicPressed, countdown, countdownRef, timerVars, now >>
    /\ UNCHANGED << trackVars, geoVars, held, sendVars, apiVars >>

\* sendEmergencyAlert settles, notifyEmergencyContacts runs, triggerPanicAlert returns
DispatchDone(t) ==
    /\ pc[t] = "send"
    /\ \E fwd \in ForwardOutcomes, ntf \in NotifyOutcomes :
         /\ settled' = [Unsettled EXCEPT
                            !.forward = fwd,
                            !.notify = IF SendEmergencyAlertThrows(fwd) THEN "none" ELSE ntf]
         /\ alertHistory' = HistoryAfterDispatch(alertHistory, fwd, ntf)
         /\ Return(t, DispatchResult(fwd, ntf))
    /\ UNCHANGED << mounted, panicPressed, countdown, countdownRef, timerVars, now >>
    /\ UNCHANGED << trackVars, geoVars, held, sendVars, apiVars >>

\* cancelEmergency, reached from onPress while emergencyActive
CancelEmergency ==
    /\ mounted
    /\ emergencyActive
    /\ emergencyActive' = FALSE
    /\ panicPressed' = FALSE
    /\ countdown' = 0
    /\ scheduled' = ClearTimer(scheduled, countdownRef)
    /\ countdownRef' = IF countdownRef # NoTimer THEN RefAfterCancel(countdownRef) ELSE countdownRef
    /\ UNCHANGED << mounted, nextTimer, count, callVars, alertHistory, now >>
    /\ UNCHANGED << trackVars, geoVars, held, sendVars, apiVars >>

\* the cleanup returned by useEffect
Unmount ==
    /\ mounted
    /\ mounted' = FALSE
    /\ scheduled' = ClearTimer(scheduled, countdownRef)
    /\ UNCHANGED << emergencyActive, panicPressed, countdown, countdownRef,
                    nextTimer, count, callVars, alertHistory, now >>
    /\ UNCHANGED << trackVars, geoVars, held, sendVars, apiVars >>

\* the wall clock moves on
AdvanceClock ==
    /\ now < MaxClock
    /\ now' = now + 1
    /\ UNCHANGED << uiVars, timerVars, callVars, alertHistory >>
    /\ UNCHANGED << trackVars, geoVars, held, sendVars, apiVars >>

Next ==
    \/ StartPanicSequence
    \/ CancelPanicSequence
    \/ \E t \in TimerIds : Tick(t)
    \/ \E t \in TimerIds : HapticDone(t)
    \/ \E t \in TimerIds : LocationDone(t)
    \/ \E t \in TimerIds : DispatchDone(t)
    \/ CancelEmergency
    \/ Unmount
    \/ AdvanceClock

Spec == Init /\ [][Next]_vars

\* ------------------------------------------------- LocationService tracking

\* startTracking(callback) is called: it runs up to the await inside
\* requestPermissions; c is the lowest free slot for a call in flight
StartTracking(c) ==
    /\ startPc[c] = "idle"
    /\ \A d \in StartCalls : d < c => startPc[d] # "idle"
    /\ Cardinality(subs)
          + Cardinality({d \in StartCalls : startPc[d] \in {"permission", "watch"}}) < MaxSubs
    /\ startPc' = [startPc EXCEPT ![c] = "permission"]
    /\ startResult' = [startResult EXCEPT ![c] = "none"]
    /\ UNCHANGED << watchId, isTracking, locationHistory, subs, delivered, stopPc, stored, writes >>
    /\ UNCHANGED << panicVars, alertHistory, geoVars, held, sendVars, apiVars >>

\* startTracking call c returns `value`
StartReturn(c, value) ==
    /\ startPc' = [startPc EXCEPT ![c] = "idle"]
    /\ startResult' = [startResult EXCEPT ![c] = value]

\* requestPermissions settles in call c
PermissionsDone(c) ==
    /\ startPc[c] = "permission"
    /\ \E answer \in { PermissionAnswer(fg, bg) :
                          fg \in PermissionOutcomes, bg \in PermissionOutcomes } :
         /\ settled' = [Unsettled EXCEPT !.permission = answer]
         /\ LET branch == StartTrackingBranch(answer = "granted", isTracking) IN
            IF branch = "watch"
            THEN /\ startPc' = [startPc EXCEPT ![c] = "watch"]
                 /\ UNCHANGED startResult
            ELSE StartReturn(c, branch)
    /\ UNCHANGED << watchId, isTracking, locationHistory, subs, delivered, stopPc, stored, writes >>
    /\ UNCHANGED << uiVars, timerVars, pc, result, now, alertHistory, geoVars, held, sendVars, apiVars >>

\* Location.watchPositionAsync settles in call c: the subscription is stored,
\* isTracking is set and Storage.setItem starts
WatchDone(c) ==
    /\ startPc[c] = "watch"
    /\ \E outcome \in WatchOutcomes :
         IF outcome = "ok"
         THEN LET s == CHOOSE i \in SubIds \ subs : \A j \in SubIds \ subs : i <= j IN
              /\ subs' = subs \cup {s}
              /\ watchId' = s
              /\ isTracking' = TRUE
              /\ writes' = Append(writes, c)
              /\ startPc' = [startPc EXCEPT ![c] = "store"]
              /\ UNCHANGED startResult
         ELSE /\ StartReturn(c, "false")
              /\ UNCHANGED << subs, watchId, isTracking, writes >>
    /\ settled' = Unsettled
    /\ UNCHANGED << locationHistory, delivered, stopPc, stored >>
    /\ UNCHANGED << uiVars, timerVars, pc, result, now, alertHistory, geoVars, held, sendVars, apiVars >>

\* Storage.setItem('locationTracking', 'true') settles in call c
StartStored(c) ==
    /\ startPc[c] = "store"
    /\ MayStore(c, writes)
    /\ writes' = WritesAfterStore(writes, c)
    /\ \E outcome \in StoreOutcomes :
         /\ stored' = StoredAfterStart(outcome, stored)
         /\ StartReturn(c, IF outcome = "ok" THEN "true" ELSE "false")
    /\ settled' = Unsettled
    /\ UNCHANGED << watchId, isTracking, locationHistory, subs, delivered, stopPc >>
    /\ UNCHANGED << uiVars, timerVars, pc, result, now, alertHistory, geoVars, held, sendVars, apiVars >>

\* stopTracking() is called: it runs up to `await Storage.setItem`
StopTracking ==
    /\ stopPc = "idle"
    /\ subs' = SubsAfterStop(subs, watchId)
    /\ watchId' = NoWatch
    /\ isTracking' = ActiveAfterStop(isTracking)
    /\ locationHistory' = HistoryAfterStop(locationHistory)
    /\ stopPc' = "store"
    /\ writes' = Append(writes, StopWriter)
    /\ scheduled' = TimersAfterStop(scheduled)
    /\ UNCHANGED << delivered, startPc, startResult, stored >>
    /\ UNCHANGED << uiVars, nextTimer, count, callVars, now >>
    /\ UNCHANGED << alertHistory, geoVars, held, sendVars, apiVars >>

\* Storage.setItem('locationTracking', 'false') settles; stopTracking returns
StopStored ==
    /\ stopPc = "store"
    /\ MayStore(StopWriter, writes)
    /\ writes' = WritesAfterStore(writes, StopWriter)
    /\ \E outcome \in StoreOutcomes :
         stored' = IF outcome = "ok" THEN "false" ELSE stored
    /\ stopPc' = "idle"
    /\ settled' = Unsettled
    /\ UNCHANGED << watchId, isTracking, locationHistory, subs, delivered, startPc, startResult >>
    /\ UNCHANGED << uiVars, timerVars, pc, result, now, alertHistory, geoVars, held, sendVars, apiVars >>

\* the platform delivers a fix to the callback of live subscription s: the
\* fix is recorded and handed to the caller's callback, and sendLocationUpdate
\* is called for it and not awaited
Deliver(s) ==
    /\ s \in subs
    /\ delivered < MaxFixes
    /\ delivered' = delivered + 1
    /\ \E pos \in Positions :
         locationHistory' = WatchCallbackHistory(locationHistory, NewFix(pos, delivered + 1))
    /\ sending' = sending \cup {delivered + 1}
    /\ UNCHANGED << watchId, isTracking, subs, startPc, startResult, stopPc, stored, writes >>
    /\ UNCHANGED << panicVars, alertHistory, geoVars, held, lastSent, apiVars >>

\* the sendLocationUpdate call for fix n settles: payload logged / no user or
\* token / Storage threw and the catch logged it
SendDone(n) ==
    /\ MayComplete(n, sending)
    /\ \E outcome \in ForwardOutcomes :
         /\ lastSent' = [fix |-> n, outcome |-> outcome]
         /\ isTracking' = ActiveAfterSend(isTracking, outcome)
    /\ sending' = sending \ {n}
    /\ UNCHANGED << watchId, locationHistory, subs, delivered, startPc, startResult,
                    stopPc, stored, writes >>
    /\ UNCHANGED << panicVars, alertHistory, geoVars, held, apiVars >>

NextTrack ==
    \/ \E c \in StartCalls : StartTracking(c)
    \/ \E c \in StartCalls : PermissionsDone(c)
    \/ \E c \in StartCalls : WatchDone(c)
    \/ \E c \in StartCalls : StartStored(c)
    \/ StopTracking
    \/ StopStored
    \/ \E s \in SubIds : Deliver(s)

SpecTrack == Init /\ [][NextTrack]_vars

\* ---------------------------------------------------------- geofence check

\* checkGeofenceViolation(location) is called with a fix at `place`: the loop
\* over the restricted areas runs, up to the await inside triggerGeofenceAlert
CheckGeofenceViolation(place) ==
    /\ checkPc = "idle"
    /\ Len(fixStream) < MaxStream
    /\ fixStream' = Append(fixStream, place)
    /\ LET area == ViolatedArea(place)
           previous == IF fixStream = << >> THEN 0
                       ELSE ViolatedArea(fixStream[Len(fixStream)])
       IN IF area = 0
          THEN /\ verdicts' = Append(verdicts, "false")
               /\ UNCHANGED << raised, checkPc >>
          ELSE IF TriggersAlert(area, previous)
          THEN /\ raised' = Append(raised, [area |-> area, fix |-> Len(fixStream) + 1,
                                            dialog |-> "pending"])
               /\ checkPc' = "haptic"
               /\ UNCHANGED verdicts
          ELSE /\ verdicts' = Append(verdicts, "true")
               /\ UNCHANGED << raised, checkPc >>
    /\ UNCHANGED << panicVars, alertHistory, trackVars, held, sendVars, apiVars >>

\* Haptics.notificationAsync settles inside triggerGeofenceAlert: the dialog is
\* shown and the check returns true, or the exception reaches the catch of
\* checkGeofenceViolation, which returns false
GeofenceHapticDone ==
    /\ checkPc = "haptic"
    /\ \E h \in HapticOutcomes :
         /\ settled' = [Unsettled EXCEPT !.haptic = h]
         /\ IF h = "ok"
            THEN /\ raised' = [raised EXCEPT ![Len(raised)].dialog = "shown"]
                 /\ alertHistory' = HistoryAfterGeofenceAlert(alertHistory,
                                        raised[Len(raised)].area, fixStream[Len(fixStream)])
                 /\ verdicts' = Append(verdicts, "true")
            ELSE /\ raised' = [raised EXCEPT ![Len(raised)].dialog = "none"]
                 /\ UNCHANGED alertHistory
                 /\ verdicts' = Append(verdicts, "false")
    /\ checkPc' = "idle"
    /\ UNCHANGED fixStream
    /\ UNCHANGED << uiVars, timerVars, pc, result, now, trackVars, held, sendVars, apiVars >>

NextGeo ==
    \/ \E place \in FixPlaces : CheckGeofenceViolation(place)
    \/ GeofenceHapticDone

SpecGeo == Init /\ [][NextGeo]_vars

\* ------------------------------------------------- callers of the getters

\* a state the app can be in: one panic alert has been sent and tracking has
\* been started by one startTracking call
InitRead ==
    /\ emergencyContacts = EmergencyContacts
    /\ mounted = TRUE
    /\ emergencyActive = TRUE
    /\ panicPressed = FALSE
    /\ countdown = 0
    /\ countdownRef = 1
    /\ nextTimer = 2
    /\ scheduled = {}
    /\ count = [t \in TimerIds |-> 0]
    /\ pc = [t \in TimerIds |-> IF t = 1 THEN "returned" ELSE "none"]
    /\ result = [t \in TimerIds |-> IF t = 1 THEN "true" ELSE "none"]
    /\ settled = Unsettled
    /\ \E pos \in Positions :
          alertHistory =
             << NewAlert(GetCurrentLocation("granted", "granted", TRUE, pos, "address", 0)[1], 0) >>
    /\ now = 0
    /\ watchId = 1
    /\ isTracking = TRUE
    /\ locationHistory = << >>
    /\ subs = {1}
    /\ delivered = 0
    /\ startPc = [c \in StartCalls |-> "idle"]
    /\ startResult = [c \in StartCalls |-> IF c = 1 THEN "true" ELSE "none"]
    /\ stopPc = "idle"
    /\ stored = "true"
    /\ writes = << >>
    /\ fixStream = << >>
    /\ verdicts = << >>
    /\ raised = << >>
    /\ checkPc = "idle"
    /\ held = NotHeld
    /\ sending = {}
    /\ lastSent = NotSent
    /\ reportPc = "idle"
    /\ reportResult = "none"
    /\ probe = NotProbed

\* a caller runs `h = LocationService.getLocationHistory()`
ReadLocationHistory ==
    /\ held' = [from |-> "location",
                refs |-> LocationRefs(GetLocationHistory(locationHistory)),
                written |-> FALSE]
    /\ held' # held
    /\ UNCHANGED << panicVars, alertHistory, trackVars, geoVars, sendVars, apiVars >>

\* a caller runs `h = EmergencyService.getAlertHistory()`
ReadAlertHistory ==
    /\ held' = [from |-> "alert",
                refs |-> AlertRefs(GetAlertHistory(alertHistory)),
                written |-> FALSE]
    /\ held' # held
    /\ UNCHANGED << panicVars, alertHistory, trackVars, geoVars, sendVars, apiVars >>

\* the caller runs `h.length = 0` on the array it holds
CallerTruncates ==
    /\ held.from # "none"
    /\ held.refs # << >>
    /\ held' = [held EXCEPT !.refs = << >>]
    /\ UNCHANGED << panicVars, alertHistory, trackVars, geoVars, sendVars, apiVars >>

\* the caller writes a field of the first entry of the array it holds:
\* `h[0].latitude = 0` on a fix, `h[0].status = 'resolved'` on an alert
CallerWritesEntry ==
    /\ held.from # "none"
    /\ held.refs # << >>
    /\ ~held.written
    /\ held' = [held EXCEPT !.written = TRUE]
    /\ IF held.from = "location"
       THEN /\ locationHistory' = LocationsAfterWrite(locationHistory, held.refs[1])
            /\ UNCHANGED alertHistory
       ELSE /\ alertHistory' = AlertsAfterWrite(alertHistory, held.refs[1])
            /\ UNCHANGED locationHistory
    /\ UNCHANGED << watchId, isTracking, subs, delivered, startPc, startResult, stopPc, stored, writes >>
    /\ UNCHANGED << panicVars, geoVars, sendVars, apiVars >>

NextRead ==
    \/ \E s \in SubIds : Deliver(s)
    \/ ReadLocationHistory
    \/ ReadAlertHistory
    \/ CallerTruncates
    \/ CallerWritesEntry

SpecRead == InitRead /\ [][NextRead]_vars

\* ----------------------------------------------- forwarding of the fixes

\* tracking on a started tracker, with the sends of the first fixes followed
\* to their end
NextSend ==
    \/ \E s \in SubIds : delivered < MaxSends /\ Deliver(s)
    \/ \E n \in 1..MaxFixes : SendDone(n)
    \/ StopTracking
    \/ StopStored

SpecSend == InitRead /\ [][NextSend]_vars

\* ------------------------------------------ panic button beside the tracker

\* the Safety screen at work while tracking is on and stopTracking may be called
NextBoth ==
    \/ Next
    \/ StopTracking
    \/ StopStored

SpecBoth == InitRead /\ [][NextBoth]_vars

\* ----------------------------------------------------------- service calls

\* a caller runs requestPermissions(); the platform answers fg and bg
CallRequestPermissions ==
    /\ \E fg \in PermissionOutcomes, bg \in PermissionOutcomes :
         probe' = [op |-> "requestPermissions", fg |-> fg, bg |-> bg,
                   value |-> RequestPermissions(fg, bg)]
    /\ UNCHANGED << panicVars, alertHistory, trackVars, geoVars, held, sendVars,
                    reportPc, reportResult, emergencyContacts >>

\* a caller runs getCurrentLocation(); the platform answers on permission,
\* position and address
CallGetCurrentLocation ==
    /\ \E fg \in PermissionOutcomes, bg \in PermissionOutcomes, posOk \in BOOLEAN,
          pos \in Positions, geo \in GeocodeOutcomes :
         probe' = [op |-> "getCurrentLocation", fg |-> fg, bg |-> bg, posOk |-> posOk,
                   pos |-> pos, geo |-> geo,
                   value |-> GetCurrentLocation(fg, bg, posOk, pos, geo, now)]
    /\ UNCHANGED << panicVars, alertHistory, trackVars, geoVars, held, sendVars,
                    reportPc, reportResult, emergencyContacts >>

\* reportIncident(type, description, location?) is called: with a location it
\* runs up to the read of 'user' from Storage, without one up to the await of
\* getCurrentLocation
ReportIncident(passed) ==
    /\ reportPc = "idle"
    /\ reportPc' = IF passed THEN "user" ELSE "location"
    /\ reportResult' = "none"
    /\ UNCHANGED << panicVars, alertHistory, trackVars, geoVars, held, sendVars, probe,
                    emergencyContacts >>

\* getCurrentLocation settles inside reportIncident
ReportLocationDone ==
    /\ reportPc = "location"
    /\ \E answer \in LocationAnswers(now) :
         /\ settled' = [Unsettled EXCEPT !.permission = answer.permission,
                                         !.position = answer.position]
         /\ IF answer.location = Null
            THEN /\ reportPc' = "idle"
                 /\ reportResult' = "false"
            ELSE /\ reportPc' = "user"
                 /\ UNCHANGED reportResult
    /\ UNCHANGED << uiVars, timerVars, pc, result, now, alertHistory, trackVars, geoVars,
                    held, sendVars, probe, emergencyContacts >>

\* the read of 'user' settles, the incident is logged and the confirmation
\* dialog shown; an exception on the way reaches the catch
ReportUserDone ==
    /\ reportPc = "user"
    /\ \E outcome \in ReportOutcomes, pos \in Positions :
         /\ settled' = [Unsettled EXCEPT !.notify = outcome]
         /\ alertHistory' =
               IF outcome = "shown"
               THEN HistoryAfterReport(alertHistory,
                       [latitude |-> pos.latitude, longitude |-> pos.longitude,
                        address |-> NoAddress])
               ELSE alertHistory
         /\ reportResult' = IF outcome = "shown" THEN "true" ELSE "false"
    /\ reportPc' = "idle"
    /\ UNCHANGED << uiVars, timerVars, pc, result, now, trackVars, geoVars,
                    held, sendVars, probe, emergencyContacts >>

NextCalls ==
    \/ CallRequestPermissions
    \/ CallGetCurrentLocation
    \/ \E passed \in BOOLEAN : ReportIncident(passed)
    \/ ReportLocationDone
    \/ ReportUserDone

SpecCalls == InitRead /\ [][NextCalls]_vars

\* ------------------------------------------------------ emergency contacts

\* addEmergencyContact(contact): the contact is pushed and the list is handed
\* to Storage.setJsonItem, whose result the service keeps nowhere
AddEmergencyContact(contact) ==
    /\ Len(emergencyContacts) < MaxContacts
    /\ emergencyContacts' = Append(emergencyContacts, contact)
    /\ alertHistory' = AlertsAfterAdd(alertHistory, contact)
    /\ UNCHANGED << panicVars, trackVars, geoVars, held, sendVars,
                    reportPc, reportResult, probe >>

\* removeEmergencyContact(phone): the list is replaced by a filtered copy
RemoveEmergencyContact(phone) ==
    /\ emergencyContacts' = ContactsAfterRemove(emergencyContacts, phone)
    /\ emergencyContacts' # emergencyContacts
    /\ UNCHANGED << panicVars, alertHistory, trackVars, geoVars, held, sendVars,
                    reportPc, reportResult, probe >>

\* after a first alert: the emergency is ended, one more countdown runs with
\* its triggerPanicAlert call, and the contact list is edited at any moment
NextContacts ==
    \/ CancelEmergency
    \/ nextTimer = 2 /\ StartPanicSequence
    \/ \E t \in TimerIds : Tick(t)
    \/ \E t \in TimerIds : HapticDone(t)
    \/ \E t \in TimerIds : LocationDone(t)
    \/ \E t \in TimerIds : DispatchDone(t)
    \/ \E contact \in NewContacts : AddEmergencyContact(contact)
    \/ \E contact \in Range(EmergencyContacts) \cup NewContacts :
          RemoveEmergencyContact(contact.phone)

SpecContacts == InitRead /\ [][NextContacts]_vars

\* --------------------------------------------- the stored tracking flag

\* start and stop calls in any interleaving, with every storage write
\* succeeding
NextFlag ==
    \/ \E c \in StartCalls : StartTracking(c)
    \/ \E c \in StartCalls : PermissionsDone(c)
    \/ \E c \in StartCalls : WatchDone(c)
    \/ \E c \in StartCalls : StartStored(c) /\ startResult'[c] = "true"
    \/ StopTracking
    \/ StopStored /\ stored' = "false"
    \/ \E s \in SubIds : delivered < MaxSends /\ Deliver(s)

SpecFlag == Init /\ [][NextFlag]_vars

\* ------------------------------------------- stopTracking during a start

\* a state the tracker can be in: startTracking call 1 has its permission and
\* is suspended in watchPositionAsync, and a stopTracking call has run and
\* returned meanwhile, its storage write done
InitRace ==
    /\ emergencyContacts = EmergencyContacts
    /\ mounted = TRUE
    /\ emergencyActive = FALSE
    /\ panicPressed = FALSE
    /\ countdown = 0
    /\ countdownRef = NoTimer
    /\ nextTimer = 1
    /\ scheduled = {}
    /\ count = [t \in TimerIds |-> 0]
    /\ pc = [t \in TimerIds |-> "none"]
    /\ result = [t \in TimerIds |-> "none"]
    /\ settled = Unsettled
    /\ alertHistory = << >>
    /\ now = 0
    /\ watchId = NoWatch
    /\ isTracking = FALSE
    /\ locationHistory = << >>
    /\ subs = {}
    /\ delivered = 0
    /\ startPc = [c \in StartCalls |-> IF c = 1 THEN "watch" ELSE "idle"]
    /\ startResult = [c \in StartCalls |-> "none"]
    /\ stopPc = "idle"
    /\ stored = "false"
    /\ writes = << >>
    /\ fixStream = << >>
    /\ verdicts = << >>
    /\ raised = << >>
    /\ checkPc = "idle"
    /\ held = NotHeld
    /\ sending = {}
    /\ lastSent = NotSent
    /\ reportPc = "idle"
    /\ reportResult = "none"
    /\ probe = NotProbed

\* the suspended startTracking call runs to its return, and the platform
\* delivers fixes to whatever subscription is live
NextRace ==
    \/ \E c \in StartCalls : WatchDone(c)
    \/ \E c \in StartCalls : StartStored(c)
    \/ \E s \in SubIds : Deliver(s)

SpecRace == InitRace /\ [][NextRace]_vars

\* ------------------------------------- a trigger outliving its emergency

\* a state the Safety screen can be in: the first countdown has run out, its
\* triggerPanicAlert call is still pending at its first await, and the user
\* has ended the emergency with cancelEmergency
InitLate ==
    /\ emergencyContacts = EmergencyContacts
    /\ mounted = TRUE
    /\ emergencyActive = FALSE
    /\ panicPressed = FALSE
    /\ countdown = 0
    /\ countdownRef = NoTimer
    /\ nextTimer = 2
    /\ scheduled = {}
    /\ count = [t \in TimerIds |-> 0]
    /\ pc = [t \in TimerIds |-> IF t = 1 THEN "haptic" ELSE "none"]
    /\ result = [t \in TimerIds |-> "none"]
    /\ settled = Unsettled
    /\ alertHistory = << >>
    /\ now = 0
    /\ watchId = NoWatch
    /\ isTracking = FALSE
    /\ locationHistory = << >>
    /\ subs = {}
    /\ delivered = 0
    /\ startPc = [c \in StartCalls |-> "idle"]
    /\ startResult = [c \in StartCalls |-> "none"]
    /\ stopPc = "idle"
    /\ stored = "unset"
    /\ writes = << >>
    /\ fixStream = << >>
    /\ verdicts = << >>
    /\ raised = << >>
    /\ checkPc = "idle"
    /\ held = NotHeld
    /\ sending = {}
    /\ lastSent = NotSent
    /\ reportPc = "idle"
    /\ reportResult = "none"
    /\ probe = NotProbed

SpecLate == InitLate /\ [][Next]_vars

\* ---------------------------------------------------- distance and speed

\* a caller runs calculateDistance(loc1, loc2) and the same call with the
\* arguments swapped
CallCalculateDistance ==
    /\ \E loc1 \in GridPoints, loc2 \in GridPoints :
         probe' = [op |-> "calculateDistance", loc1 |-> loc1, loc2 |-> loc2,
                   value |-> CalculateDistanceOfFixes(loc1, loc2),
                   swapped |-> CalculateDistanceOfFixes(loc2, loc1)]
    /\ UNCHANGED << panicVars, alertHistory, trackVars, geoVars, held, sendVars,
                    reportPc, reportResult, emergencyContacts >>

\* a caller runs calculateSpeed(loc1, loc2)
CallCalculateSpeed ==
    /\ \E loc1 \in GridFixes, loc2 \in GridFixes :
         probe' = [op |-> "calculateSpeed", loc1 |-> loc1, loc2 |-> loc2,
                   value |-> CalculateSpeed(loc1, loc2)]
    /\ UNCHANGED << panicVars, alertHistory, trackVars, geoVars, held, sendVars,
                    reportPc, reportResult, emergencyContacts >>

NextMath ==
    \/ CallCalculateDistance
    \/ CallCalculateSpeed

SpecMath == InitRead /\ [][NextMath]_vars

\* ---------------------------------------------------------------- helpers

\* this step is a write by the caller to the array it holds or to an entry of it
CallerStep ==
    /\ held'.from = held.from
    /\ \/ held.refs # << >> /\ held'.refs = << >>
       \/ ~held.written /\ held'.written


\* this step is `alertHistory.unshift(alert)` in timer t's triggerPanicAlert call
RecordStep(t) == pc[t] = "location" /\ pc'[t] = "send"

\* this step is the end of the dispatch in timer t's triggerPanicAlert call
DispatchStep(t) == pc[t] = "send" /\ pc'[t] = "returned"

\* the panic state of the screen, read off its two flags
Idle == ~panicPressed /\ ~emergencyActive
CountingDown == panicPressed /\ ~emergencyActive
Active == emergencyActive

\* this step is the third tick of timer t
ExpiryStep(t) == t \in scheduled /\ t \notin scheduled' /\ pc[t] = "none" /\ pc'[t] = "haptic"

\* this step is a setInterval call (startPanicSequence)
StartStep == nextTimer' # nextTimer

\* this step is cancelPanicSequence
CancelPanicStep == mounted /\ CountingDown /\ ~panicPressed' /\ ~emergencyActive'

\* this step is cancelEmergency
CancelEmergencyStep == mounted /\ emergencyActive /\ ~emergencyActive' /\ result' = result

\* this step is the return of timer t's triggerPanicAlert call with `value`
ReturnStep(t, value) == result[t] = "none" /\ result'[t] = value

\* this step is the settling of requestPermissions in startTracking call c
PermissionStep(c) == startPc[c] = "permission" /\ startPc'[c] # "permission"

\* this step is the return of startTracking call c with `value`
StartReturnStep(c, value) ==
    startPc[c] # "idle" /\ startPc'[c] = "idle" /\ startResult'[c] = value

\* this step is the synchronous part of stopTracking
StopStep == stopPc = "idle" /\ stopPc' = "store"

\* this step is the delivery of a fix to a watch callback
DeliverStep == delivered' = delivered + 1

\* this step is a sendLocationUpdate call settling
SendStep == sending' # sending /\ sending' \subseteq sending

\* this step is a sendLocationUpdate call settling without a payload sent
SendFailedStep == SendStep /\ lastSent'.outcome # "sent"

\* the last send to settle did not send its payload
LastSendFailed == lastSent.fix > 0 /\ lastSent.outcome # "sent"

\* this step belongs to a reportIncident call
ReportStep == reportPc' # reportPc

\* this step is getCurrentLocation settling inside reportIncident
ReportLocationStep == reportPc = "location" /\ reportPc' # "location"

\* the order of the values of EmergencyAlert.status
StatusRank(status) ==
    CASE status = "sent" -> 1
      [] status = "acknowledged" -> 2
      [] status = "resolved" -> 3

\* this step changes the list of emergency contacts
ContactsStep == emergencyContacts' # emergencyContacts

\* ------------------------------------------------------------------ claims

\* C1 as stated: once the single countdown started from Idle has run its three
\* ticks and its triggerPanicAlert call has returned, the alert history holds
\* exactly one alert
C1_Original ==
    (nextTimer = 2 /\ pc[1] = "returned") => Len(alertHistory) = 1

\* C1 (amended): a countdown timer ticks from 3 down by one per tick; at its
\* third tick, and only then, it clears itself, makes the panic state Active and
\* makes its one call to triggerPanicAlert; that call adds exactly one sos
\* alert to the history, and returns true, when it obtains a location, and
\* adds none, and returns false, when it does not
C1_SequenceCompletion ==
    /\ [](\A t \in TimerIds :
            /\ t \in scheduled => (count[t] \in 1..StartCount /\ pc[t] = "none")
            /\ pc[t] # "none" => (count[t] = 0 /\ t \notin scheduled /\ t < nextTimer))
    /\ [][\A t \in TimerIds :
            /\ count'[t] \in {count[t], count[t] - 1, StartCount}
            /\ (count[t] = 1 /\ count'[t] = 0) =>
                  (ExpiryStep(t) /\ (mounted => (emergencyActive' /\ ~panicPressed')))
            /\ pc[t] # "none" => pc'[t] # "none"]_vars
    /\ [](Len(alertHistory) =
             Cardinality({t \in TimerIds : pc[t] = "send" \/ result[t] = "true"}))
    /\ [](\A i \in 1..Len(alertHistory) : alertHistory[i].type = "sos")
    /\ [][\A t \in TimerIds :
            /\ RecordStep(t) => (settled'.permission = "granted" /\ settled'.position = "ok")
            /\ DispatchStep(t) => ReturnStep(t, "true")
            /\ (pc[t] \in {"haptic", "location"} /\ pc'[t] = "returned") =>
                  ReturnStep(t, "false")]_vars

\* C1 witness: one countdown ran to expiry, the panic state is Active and its
\* call has returned after recording its alert
C1_Witness ==
    /\ nextTimer = 2 /\ count[1] = 0 /\ pc[1] = "returned" /\ result[1] = "true"
    /\ emergencyActive /\ ~panicPressed
    /\ Len(alertHistory) = 1

\* C2: a countdown started from Idle has exactly one timer, the one held by
\* countdownRef; ticks before expiry leave it so; cancelPanicSequence then
\* clears it, leaves the panic state Idle and the alert history and the set of
\* trigger calls as they were; and a timer that was cleared before it fired
\* never fires and is never scheduled again
C2_PanicCancel ==
    /\ [][(Idle /\ scheduled = {} /\ StartStep) =>
             (CountingDown' /\ scheduled' = {countdownRef'})]_vars
    /\ [][(CountingDown /\ scheduled = {countdownRef} /\ ~StartStep /\ scheduled' # {}) =>
             (scheduled' = scheduled /\ countdownRef' = countdownRef)]_vars
    /\ [][(CancelPanicStep /\ scheduled = {countdownRef}) =>
             (Idle' /\ scheduled' = {} /\ alertHistory' = alertHistory /\ pc' = pc)]_vars
    /\ [][\A t \in TimerIds :
             (t < nextTimer /\ t \notin scheduled /\ pc[t] = "none") =>
                (t \notin scheduled' /\ pc'[t] = "none")]_vars
    /\ [][(scheduled = {} /\ \A t \in TimerIds : pc[t] \in {"none", "returned"}) =>
             alertHistory' = alertHistory]_vars

\* C2 witness: the only countdown was cancelled after a tick, nothing is left
\* scheduled and no alert exists
C2_Witness ==
    /\ mounted /\ Idle
    /\ nextTimer = 2 /\ count[1] \in 1..(StartCount - 1) /\ pc[1] = "none"
    /\ scheduled = {} /\ countdownRef = NoTimer
    /\ alertHistory = << >>

\* C3 as stated: while the panic state is CountingDown or Active no step
\* schedules a timer, and the remaining count shown never goes back up
C3_StartGuard ==
    [][(CountingDown \/ Active) =>
          (nextTimer' = nextTimer /\ scheduled' \subseteq scheduled /\ countdown' <= countdown)]_vars

\* C4 as stated: at most one countdown timer is scheduled, and none while the
\* panic state is Idle or Active or after teardown
C4_NoOrphanTimers ==
    /\ Cardinality(scheduled) <= 1
    /\ (Idle \/ Active \/ ~mounted) => scheduled = {}

\* C5 as stated: a failure result of triggerPanicAlert leaves an Active panic
\* state Active
C5_Original ==
    [][\A t \in TimerIds :
          (mounted /\ Active /\ ReturnStep(t, "false")) => Active']_vars

\* C5 (amended): the third tick makes the panic state Active; when
\* triggerPanicAlert then reports failure, triggerEmergency sets emergencyActive
\* back to false; a success result leaves the flag as it is
C5_ExpiryThenRevert ==
    /\ [][\A t \in TimerIds : (mounted /\ ExpiryStep(t)) => Active']_vars
    /\ [][\A t \in TimerIds : (mounted /\ ReturnStep(t, "false")) => ~emergencyActive']_vars
    /\ [][\A t \in TimerIds :
             (mounted /\ ReturnStep(t, "true")) => emergencyActive' = emergencyActive]_vars

\* C5 witness: the only countdown expired, its trigger failed for want of a
\* location and the panic state is not Active
C5_Witness ==
    /\ mounted /\ nextTimer = 2
    /\ pc[1] = "returned" /\ result[1] = "false" /\ settled.position = "error"
    /\ ~emergencyActive
    /\ alertHistory = << >>

\* C6 as stated: cancelEmergency returns the panic state to Idle and leaves the
\* most recent alert, the one this emergency created, resolved
C6_Original ==
    [][(CancelEmergencyStep /\ Len(alertHistory) > 0) =>
          (Idle' /\ Len(alertHistory') > 0 /\ alertHistory'[1].status = "resolved")]_vars

\* C6 (amended): cancelEmergency returns the panic state to Idle, with the
\* countdown at 0 and countdownRef null, and leaves the alert history as it
\* was; every alert in the history keeps the status sent
C6_CancelEmergency ==
    /\ [][CancelEmergencyStep =>
             (/\ Idle'
              /\ countdown' = 0
              /\ countdownRef' = NoTimer
              /\ alertHistory' = alertHistory)]_vars
    /\ [](\A i \in 1..Len(alertHistory) : alertHistory[i].status = "sent")

\* C6 witness: the emergency of the only countdown was cancelled after its
\* alert was recorded; the alert is still there with status sent
C6_Witness ==
    /\ mounted /\ Idle /\ countdownRef = NoTimer
    /\ nextTimer = 2 /\ result[1] = "true"
    /\ Len(alertHistory) = 1 /\ alertHistory[1].status = "sent"

\* C7: a triggerPanicAlert call whose location fetch met a refused permission
\* or a failed position fetch returns false in the step in which the fetch
\* settles, that step leaves the alert history unchanged, a call that has
\* returned does nothing more, and the history holds one alert per call that
\* got past its location fetch
C7_NoLocationNoAlert ==
    /\ [][\A t \in TimerIds :
             (pc[t] = "location" /\ pc'[t] # "location"
                 /\ (settled'.permission # "granted" \/ settled'.position # "ok")) =>
                (ReturnStep(t, "false") /\ pc'[t] = "returned" /\ alertHistory' = alertHistory)]_vars
    /\ [][\A t \in TimerIds :
             pc[t] = "returned" => (pc'[t] = "returned" /\ result'[t] = result[t])]_vars
    /\ [](Len(alertHistory) =
             Cardinality({t \in TimerIds : pc[t] = "send" \/ result[t] = "true"}))

\* C7 witness: a call returned false because permission was refused, and the
\* history is empty
C7_Witness ==
    /\ nextTimer = 2 /\ pc[1] = "returned" /\ result[1] = "false"
    /\ settled.permission = "denied"
    /\ alertHistory = << >>

\* C8: every change of the alert history puts exactly one new alert with
\* status sent in front of the unchanged earlier entries, in the step in which
\* a call passes its location fetch; the history is ordered by timestamp, most
\* recent first
C8_MostRecentFirst ==
    /\ [][alertHistory' # alertHistory =>
             (/\ Len(alertHistory') = Len(alertHistory) + 1
              /\ Tail(alertHistory') = alertHistory
              /\ alertHistory'[1].status = "sent"
              /\ alertHistory'[1].timestamp = now
              /\ \E t \in TimerIds : RecordStep(t))]_vars
    /\ [][\A t \in TimerIds : RecordStep(t) => alertHistory' # alertHistory]_vars
    /\ [](\A i, j \in 1..Len(alertHistory) :
             i < j => alertHistory[i].timestamp >= alertHistory[j].timestamp)

\* C8 witness: two alerts created at different clock values, the later one in front
C8_Witness ==
    /\ Len(alertHistory) = 2
    /\ alertHistory[1].timestamp > alertHistory[2].timestamp
    /\ result[1] = "true" /\ result[2] = "true"

\* C9: the alert history never loses an entry: each step leaves it as it was
\* or adds one entry in front; in particular the step in which
\* sendEmergencyAlert or notifyEmergencyContacts fails leaves it unchanged
C9_LocalDurability ==
    /\ [][\/ alertHistory' = alertHistory
          \/ (Len(alertHistory') > 0 /\ Tail(alertHistory') = alertHistory)]_vars
    /\ [][\A t \in TimerIds :
             (DispatchStep(t)
                 /\ (settled'.forward \in {"error", "noauth"} \/ settled'.notify = "error")) =>
                alertHistory' = alertHistory]_vars

\* C9 witness: both the backend forward and the contact notification of a call
\* failed and its alert is in the history
C9_Witness ==
    /\ nextTimer = 2 /\ pc[1] = "returned"
    /\ settled.forward = "error" /\ settled.notify = "error"
    /\ Len(alertHistory) = 1

\* C10 as stated: a call that recorded its alert and whose backend forward or
\* contact notification failed does not return the value of a fully
\* successful trigger, true
C10_Original ==
    [][\A t \in TimerIds :
          (DispatchStep(t) /\ (settled'.forward = "error" \/ settled'.notify = "error")) =>
             result'[t] # "true"]_vars

\* C10 (amended): a call that recorded its alert returns true whatever became
\* of the backend forward and of the contact notification
C10_SameResult ==
    [][\A t \in TimerIds :
          DispatchStep(t) =>
             (/\ settled'.forward \in ForwardOutcomes
              /\ settled'.notify \in NotifyOutcomes
              /\ ReturnStep(t, "true"))]_vars

\* C10 witness: a call whose backend forward failed returned true
C10_Witness ==
    /\ nextTimer = 2 /\ pc[1] = "returned"
    /\ settled.forward = "error" /\ settled.notify = "shown"
    /\ result[1] = "true"

\* C11 as stated: the outcome of the haptic pulse never changes what
\* triggerPanicAlert does next: once the pulse has settled, whether it succeeded
\* or failed, the call goes on to fetch the location
C11_HapticIgnored ==
    [][\A t \in TimerIds :
          (pc[t] = "haptic" /\ pc'[t] # "haptic") => pc'[t] = "location"]_vars

\* C12 as stated: a geofence alert is shown for a fix only when the previous
\* fix was not inside the same area (or there was no previous fix), so two
\* consecutive fixes inside an area show one alert
C12_Original ==
    \A k \in 1..Len(raised) :
       raised[k].dialog = "shown" =>
          \/ raised[k].fix = 1
          \/ ViolatedArea(fixStream[raised[k].fix - 1]) # raised[k].area

\* C12 (amended): checkGeofenceViolation raises a geofence alert (calls
\* triggerGeofenceAlert) once for every fix that is inside a restricted area,
\* for the first such area in list order, whatever the previous fix was, and
\* for no other fix; the alert's dialog is shown exactly when the check of
\* that fix returns true
C12_EveryInsideFix ==
    LET insideFixes == { i \in 1..Len(fixStream) : ViolatedArea(fixStream[i]) # 0 } IN
    /\ Len(raised) = Cardinality(insideFixes)
    /\ \A k \in 1..Len(raised) :
          /\ raised[k].fix \in insideFixes
          /\ raised[k].area = ViolatedArea(fixStream[raised[k].fix])
          /\ \A j \in 1..Len(raised) : j < k => raised[j].fix < raised[k].fix
          /\ raised[k].fix <= Len(verdicts) =>
                (raised[k].dialog = "shown" <=> verdicts[raised[k].fix] = "true")
          /\ raised[k].fix > Len(verdicts) => raised[k].dialog = "pending"

\* C12 witness: two consecutive fixes inside the first area, and an alert
\* shown for each of them
C12_Witness ==
    /\ checkPc = "idle"
    /\ Len(fixStream) = 2
    /\ ViolatedArea(fixStream[1]) = 1 /\ ViolatedArea(fixStream[2]) = 1
    /\ Len(raised) = 2
    /\ raised[1].dialog = "shown" /\ raised[2].dialog = "shown"

\* C13 as stated: a fix inside a restricted area whose check returned true has
\* left an EmergencyAlert of kind geofence with status sent in the alert history
C13_Original ==
    \A i \in 1..Len(verdicts) :
       verdicts[i] = "true" =>
          \E j \in 1..Len(alertHistory) :
             alertHistory[j].type = "geofence" /\ alertHistory[j].status = "sent"

\* C13 (amended): a geofence alert is a haptic pulse and a dialog only: no
\* step of a geofence check changes the alert history, which holds no alert of
\* kind geofence; after the fixes at 500 m, 1500 m and 400 m from the centre
\* of the 1000 m area two geofence alerts have been raised, for the first and
\* the third fix, and the history is as it was
C13_GeofenceNotRecorded ==
    /\ [][alertHistory' = alertHistory]_vars
    /\ [](\A j \in 1..Len(alertHistory) : alertHistory[j].type # "geofence")
    /\ []((fixStream = << 500, 1500, 400 >> /\ checkPc = "idle") =>
             (/\ Len(raised) = 2
              /\ raised[1].fix = 1 /\ raised[2].fix = 3
              /\ raised[1].area = 1 /\ raised[2].area = 1
              /\ alertHistory = << >>))

\* C13 witness: the stream 500 m, 1500 m, 400 m has been checked, both alerts
\* were shown, and the alert history is empty
C13_Witness ==
    /\ fixStream = << 500, 1500, 400 >>
    /\ verdicts = << "true", "false", "true" >>
    /\ Len(raised) = 2 /\ raised[1].dialog = "shown" /\ raised[2].dialog = "shown"
    /\ alertHistory = << >>

\* C14 as stated: the check of a fix returns true exactly when the fix is at a
\* distance of at most the radius from the centre of some restricted area
C14_Boundary ==
    \A i \in 1..Len(verdicts) :
       verdicts[i] = "true" <=>
          \E a \in 1..Len(RestrictedAreas) :
             CalculateDistance(fixStream[i], RestrictedAreas[a].place)
                <= RestrictedAreas[a].radius

\* C15 as stated: a startTracking call that reaches its already-active check
\* while tracking is active returns true and leaves the live subscriptions as
\* they were
C15_Original ==
    [][\A c \in StartCalls :
          (PermissionStep(c) /\ isTracking) =>
             (StartReturnStep(c, "true") /\ subs' = subs)]_vars

\* C15 (amended): startTracking asks for permission before it looks at
\* isTracking; a call that finds tracking active returns at once, true when
\* the permission request succeeded and false when it was refused or failed,
\* and in both cases creates no subscription and leaves watchId and isTracking
\* as they were
C15_AlreadyActive ==
    [][\A c \in StartCalls :
          (PermissionStep(c) /\ isTracking) =>
             (/\ StartReturnStep(c, IF settled'.permission = "granted" THEN "true" ELSE "false")
              /\ subs' = subs
              /\ watchId' = watchId
              /\ isTracking')]_vars

\* C15 witness: while the call that started tracking is still writing the
\* stored flag, a second call has returned true; one subscription is live
C15_Witness ==
    /\ isTracking /\ subs = {watchId}
    /\ startPc[1] = "store"
    /\ startPc[2] = "idle" /\ startResult[2] = "true"
    /\ stored = "unset"

C17_StopIdempotent ==
    /\ [][(StopStep /\ watchId = NoWatch /\ ~isTracking) =>
             (/\ watchId' = NoWatch
              /\ ~isTracking'
              /\ subs' = subs
              /\ locationHistory' = locationHistory
              /\ delivered' = delivered
              /\ startPc' = startPc /\ startResult' = startResult
              /\ stored' = stored)]_vars
    /\ [][(stopPc = "store" /\ stopPc' # "store") =>
             (/\ stopPc' = "idle"
              /\ stored' \in {stored, "false"}
              /\ watchId' = watchId /\ isTracking' = isTracking /\ subs' = subs)]_vars

\* C17 witness: stopTracking was called and has returned on a tracker that was
\* never started: it is stopped as before
C17_Witness ==
    /\ \A c \in StartCalls : startPc[c] = "idle" /\ startResult[c] = "none"
    /\ stopPc = "idle" /\ stored = "false"
    /\ watchId = NoWatch /\ ~isTracking /\ subs = {}
    /\ locationHistory = << >>

\* C18: after n delivered fixes the location history holds min(n, 50) entries,
\* never more than 50, and they are the last min(n, 50) fixes delivered, in
\* the order of arrival, oldest first
C18_BoundedHistory ==
    LET n == delivered
        kept == IF n < HistoryCapacity THEN n ELSE HistoryCapacity
    IN /\ Len(locationHistory) <= HistoryCapacity
       /\ Len(locationHistory) = kept
       /\ \A i \in 1..Len(locationHistory) :
             locationHistory[i] \in { NewFix(pos, n - kept + i) : pos \in Positions }

\* C18 witness: more than 50 fixes were delivered; the history holds 50 and its
\* oldest entry is the fix that arrived 49 fixes before the latest
C18_Witness ==
    /\ delivered > HistoryCapacity
    /\ Len(locationHistory) = HistoryCapacity
    /\ locationHistory[1].timestamp = delivered - HistoryCapacity + 1
    /\ locationHistory[HistoryCapacity].timestamp = delivered

\* C19 as stated: stopTracking leaves the location history empty
C19_Original ==
    [][StopStep => GetLocationHistory(locationHistory') = << >>]_vars

\* C19 (amended): stopTracking leaves the location history as it was: after
\* it getLocationHistory returns the fixes recorded so far, and the history
\* changes only when a fix is delivered
C19_HistoryKept ==
    /\ [][StopStep =>
             GetLocationHistory(locationHistory') = GetLocationHistory(locationHistory)]_vars
    /\ [][(stopPc = "store" /\ stopPc' = "idle") => locationHistory' = locationHistory]_vars
    /\ [][locationHistory' # locationHistory => DeliverStep]_vars

\* C19 witness: tracking was stopped after two fixes and the history still
\* holds both
C19_Witness ==
    /\ stopPc = "idle" /\ stored = "false"
    /\ subs = {} /\ watchId = NoWatch /\ ~isTracking
    /\ delivered = 2
    /\ GetLocationHistory(locationHistory)
          \in { << NewFix(p, 1), NewFix(q, 2) >> : p \in Positions, q \in Positions }

\* C20 as stated: whatever the caller does to the array returned by
\* getLocationHistory or getAlertHistory, or to its entries, the next read of
\* either history gives what the read before gave
C20_CopyOnRead ==
    [][CallerStep =>
          (/\ GetLocationHistory(locationHistory') = GetLocationHistory(locationHistory)
           /\ GetAlertHistory(alertHistory') = GetAlertHistory(alertHistory))]_vars

\* ------------------------------------------------------------------ C21
\* C21: requestPermissions returns false exactly when the foreground
\* permission is not granted or the request throws; with the foreground
\* permission granted it returns true whether the background permission is
\* granted or refused.
C21_ForegroundDecides ==
    probe.op = "requestPermissions" =>
        /\ (probe.fg # "granted" => probe.value = FALSE)
        /\ (probe.fg = "granted" /\ probe.bg \in {"granted", "denied"} => probe.value = TRUE)
        /\ (probe.value = FALSE => probe.fg # "granted" \/ probe.bg = "error")

C21_Witness ==
    /\ probe.op = "requestPermissions"
    /\ probe.fg = "granted"
    /\ probe.bg = "denied"
    /\ probe.value = TRUE

\* ------------------------------------------------------------------ C22
\* C22: when the position is obtained and reverse geocoding throws,
\* getCurrentLocation still returns the fix with its coordinates, and the
\* address is left empty.
C22_GeocodingTolerated ==
    (/\ probe.op = "getCurrentLocation"
     /\ probe.fg = "granted"
     /\ probe.bg # "error"
     /\ probe.posOk
     /\ probe.geo = "error") =>
        /\ probe.value # Null
        /\ probe.value[1].latitude = probe.pos.latitude
        /\ probe.value[1].longitude = probe.pos.longitude
        /\ probe.value[1].address = NoAddress

C22_Witness ==
    /\ probe.op = "getCurrentLocation"
    /\ probe.fg = "granted"
    /\ probe.bg = "denied"
    /\ probe.posOk
    /\ probe.geo = "error"
    /\ probe.value # Null
    /\ probe.value[1].address = NoAddress

\* ------------------------------------------------------------------ C23
\* C23: a failing sendLocationUpdate never stops tracking: the step in which
\* it fails leaves the active flag, the subscription and the history as they
\* are, and while the subscription lives the next fix can still be delivered
\* and is then appended to the history and counted as handed to the callback.
C23_ForwardFailureHarmless ==
    /\ [][SendFailedStep =>
            /\ isTracking' = isTracking
            /\ watchId' = watchId
            /\ subs' = subs
            /\ locationHistory' = locationHistory
            /\ delivered' = delivered]_vars
    /\ []((LastSendFailed /\ subs # {} /\ delivered < MaxFixes) =>
            ENABLED (\E s \in SubIds : Deliver(s)))
    /\ [][(LastSendFailed /\ DeliverStep) =>
            /\ Len(locationHistory') > 0
            /\ locationHistory'[Len(locationHistory')].timestamp = delivered'
            /\ delivered' \in sending']_vars

C23_Witness ==
    /\ lastSent = [fix |-> 1, outcome |-> "error"]
    /\ isTracking
    /\ subs = {1}
    /\ delivered = 2
    /\ Len(locationHistory) = 2
    /\ locationHistory[1].timestamp = 1
    /\ locationHistory[2].timestamp = 2

\* ------------------------------------------------------------------ C24
\* C24: forwarding is fire-and-forget: a fix can be delivered while earlier
\* sends are in flight and is then recorded in that same step, and whichever
\* send is in flight may be the next to settle, so the sends of two fixes
\* complete in either order.
C24_FireAndForget ==
    /\ []((sending # {} /\ subs # {} /\ delivered < MaxFixes) =>
            ENABLED (\E s \in SubIds : Deliver(s)))
    /\ [][(sending # {} /\ DeliverStep) =>
            /\ Len(locationHistory') > 0
            /\ locationHistory'[Len(locationHistory')].timestamp = delivered'
            /\ sending' = sending \cup {delivered'}]_vars
    /\ [](\A n \in sending : ENABLED SendDone(n))

C24_Witness ==
    /\ delivered >= 2
    /\ 1 \in sending
    /\ lastSent.fix = 2
    /\ Len(locationHistory) >= 2

\* ------------------------------------------------------------------ C25
\* C25: the panic timer and the tracker are independent: cancelPanicSequence,
\* cancelEmergency and the expiry of the countdown leave the tracking
\* subscription and the active flag unchanged, and stopTracking leaves the
\* panic state, the countdown and the countdown timer unchanged.
C25_TimerIndependence ==
    /\ [][(CancelPanicStep \/ CancelEmergencyStep \/ \E t \in TimerIds : ExpiryStep(t)) =>
            /\ watchId' = watchId
            /\ subs' = subs
            /\ isTracking' = isTracking]_vars
    /\ [][StopStep =>
            /\ panicPressed' = panicPressed
            /\ emergencyActive' = emergencyActive
            /\ countdown' = countdown
            /\ countdownRef' = countdownRef
            /\ scheduled' = scheduled]_vars

C25_Witness ==
    /\ stopPc = "store"
    /\ ~isTracking
    /\ subs = {}
    /\ panicPressed
    /\ countdown < StartCount
    /\ countdownRef \in scheduled

\* ------------------------------------------------------------------ C26
\* C26: no step of reportIncident, whether the call ends in success or in
\* failure, changes the alert history or the status of an alert in it; and a
\* call without a location, when no location can be fetched either, returns
\* failure.
C26_ReportLeavesAlerts ==
    /\ [][ReportStep => alertHistory' = alertHistory]_vars
    /\ [][(ReportLocationStep /\
             (settled'.permission # "granted" \/ settled'.position # "ok")) =>
            /\ reportPc' = "idle"
            /\ reportResult' = "false"]_vars

C26_Witness ==
    /\ reportPc = "idle"
    /\ reportResult = "true"
    /\ settled.notify = "shown"
    /\ Len(alertHistory) = 1
    /\ alertHistory[1].status = "sent"

\* ------------------------------------------------------------------ C27
\* C27: in every reachable state the alerts of the history have pairwise
\* distinct ids, also when two triggers read the same clock value.
C27_UniqueIds ==
    \A i \in 1..Len(alertHistory), j \in 1..Len(alertHistory) :
        i # j => alertHistory[i].id # alertHistory[j].id

\* ------------------------------------------------------------------ C28
\* C28: the status of an alert only moves forward: in no step does an alert
\* of the history go from acknowledged back to sent, or from resolved back to
\* sent or acknowledged (alerts are added at the front, so an alert keeps its
\* distance from the end of the history).
C28_StatusForwardOnly ==
    [][/\ Len(alertHistory') >= Len(alertHistory)
       /\ \A k \in 1..Len(alertHistory) :
            StatusRank(alertHistory'[Len(alertHistory') - Len(alertHistory) + k].status)
                >= StatusRank(alertHistory[k].status)]_vars

C28_Witness ==
    /\ Len(alertHistory) = 2
    /\ alertHistory[1].status = "sent"
    /\ alertHistory[2].status = "sent"
    /\ result[1] # "none"
    /\ result[2] # "none"

\* ------------------------------------------------------------------ C29
\* C29: every alert of the history whose status is sent or acknowledged has
\* a location that is not null and carries coordinates.
C29_LocatedAlerts ==
    \A i \in 1..Len(alertHistory) :
        alertHistory[i].status \in {"sent", "acknowledged"} =>
            /\ alertHistory[i].location # Null
            /\ alertHistory[i].location.latitude \in Int
            /\ alertHistory[i].location.longitude \in Int

C29_Witness ==
    /\ Len(alertHistory) > 0
    /\ alertHistory[1].status = "sent"
    /\ alertHistory[1].location # Null
    /\ result[1] # "none"

\* ------------------------------------------------------------------ C32
\* C32: the panic state is exactly one of Idle, CountingDown and Active: the
\* flags panicPressed and emergencyActive are never both true, and a countdown
\* timer is scheduled only while the state is CountingDown.
C32_OnePanicState ==
    /\ ~(panicPressed /\ emergencyActive)
    /\ (scheduled # {} => CountingDown)

\* ------------------------------------------------------------------ C33
\* C33: calculateSpeed returns 0 without dividing whenever the second fix's
\* timestamp is less than or equal to the first's, and otherwise the distance
\* of the two fixes divided by the elapsed seconds; the divisor of a division
\* it makes is always positive.
C33_SpeedGuarded ==
    probe.op = "calculateSpeed" =>
        /\ (probe.loc2.timestamp <= probe.loc1.timestamp => probe.value = NoSpeed)
        /\ (probe.loc2.timestamp > probe.loc1.timestamp =>
              /\ probe.value.divided
              /\ probe.value.dividend = CalculateDistanceOfFixes(probe.loc1, probe.loc2)
              /\ probe.value.divisor * MillisPerSecond =
                     probe.loc2.timestamp - probe.loc1.timestamp)
        /\ (probe.value.divided => probe.value.divisor > 0)

C33_Witness ==
    /\ probe.op = "calculateSpeed"
    /\ probe.loc2.timestamp < probe.loc1.timestamp
    /\ probe.loc1.latitude # probe.loc2.latitude
    /\ probe.value = NoSpeed

\* ------------------------------------------------------------------ C34
\* C34: calculateDistance is 0 for two identical points, gives the same value
\* with its arguments swapped, and is never negative.
C34_DistanceSymmetric ==
    probe.op = "calculateDistance" =>
        /\ (probe.loc1 = probe.loc2 => probe.value = 0)
        /\ probe.value = probe.swapped
        /\ probe.value >= 0

C34_Witness ==
    /\ probe.op = "calculateDistance"
    /\ probe.loc1.latitude > probe.loc2.latitude
    /\ probe.loc1.longitude # probe.loc2.longitude
    /\ probe.value = probe.swapped
    /\ probe.value > 0

\* ------------------------------------------------------------------ C35
\* C35: once every startTracking call has returned, also after calls that
\* overlapped, at most one location subscription is live, and every live
\* subscription is the one the tracker holds in watchId.
C35_OneSubscription ==
    (\A c \in StartCalls : startPc[c] = "idle") =>
        /\ Cardinality(subs) <= 1
        /\ \A s \in subs : s = watchId

\* ------------------------------------------------------------------ C36
\* C36: when stopTracking has run and returned while a startTracking call was
\* suspended waiting for its subscription, then once that call has returned
\* too the tracker is not active, no subscription is live and no fix has been
\* delivered to the callback.
C36_StopWinsRace ==
    (\A c \in StartCalls : startPc[c] = "idle") =>
        /\ ~isTracking
        /\ subs = {}
        /\ delivered = 0

\* ------------------------------------------------------------------ C37
\* C37: whenever a startTracking call returns false, the tracker is not
\* active and holds no live subscription.
C37_FailedStartIsOff ==
    [][\A c \in StartCalls :
          StartReturnStep(c, "false") => (~isTracking' /\ subs' = {})]_vars

\* ------------------------------------------------------------------ C38
\* C38: after the user has ended an emergency whose triggerPanicAlert call
\* (of timer 1) is still pending and a later countdown has run out, a failure
\* result arriving from that first call leaves the panic state Active.
C38_LateResultIgnored ==
    [][(/\ mounted
        /\ Active
        /\ \E u \in TimerIds : u > 1 /\ pc[u] # "none"
        /\ ReturnStep(1, "false")) => Active']_vars

C40_ContactsSnapshot ==
    /\ [][\A t \in TimerIds :
            RecordStep(t) =>
                /\ Len(alertHistory') = Len(alertHistory) + 1
                /\ alertHistory'[1].contacts = Phones(emergencyContacts)]_vars
    /\ [][ContactsStep => alertHistory' = alertHistory]_vars

C40_Witness ==
    /\ Len(alertHistory) = 2
    /\ alertHistory[2].contacts = << "100", "1363", "108" >>
    /\ alertHistory[1].contacts = << "1363", "108", "555" >>
    /\ emergencyContacts = << >>

====
